---- MODULE Spec2Model ----
(***************************************************************************)
(* Model of src/freebox.js: the FreeboxServerNode configuration node       *)
(* (discovery, application registration, session refresh, signed calls)   *)
(* and the input handler of the FreeboxNode operation nodes.               *)
(*                                                                         *)
(* JavaScript values are encoded as integers drawn from disjoint ranges,   *)
(* so that a value found in a log entry or in a request identifies what    *)
(* it is:  undefined = -1, '' = 0, app tokens 11.., track ids 21..,        *)
(* session tokens 31.., challenges 41.., permission maps 51..,             *)
(* HMAC digests >= 1000.                                                   *)
(***************************************************************************)
EXTENDS Integers, Sequences, FiniteSets

\* ------------------------------------------------------------------ bounds
\* requests issued by registerApplication (authorize and authorize-status)
MaxRegister == 4
\* restarts of the Node-RED runtime (the node is constructed again)
MaxRestarts == 1
\* calls of apiCall made by the 'input' handlers of the operation nodes
MaxCalls == 2

\* ------------------------------------------------------- JavaScript values
Undef == -1
EmptyStr == 0
EmptyObj == 0

\* the values the appliance can answer with
AppTokens == {11, 12}
TrackIds == {21, 22}
\* every authorize call is answered with a token and a track id of its own
AuthorizeResults == {[app_token |-> 11, track_id |-> 21], [app_token |-> 12, track_id |-> 22]}
SessionTokens == {31}
Challenges == {41}
Permissions == {51}
\* payloads of a signed call's result
Results == {61}
\* authorize-status answers; "denied" stands for every status the switch
\* of registerApplication has no case for
Statuses == {"pending", "granted", "timeout", "denied"}

\* the operation nodes of the flow: one of each registered type that names
\* the configuration node (1 freebox-connected-devices, 2
\* freebox-connection-status), and one whose config.server names no node (3)
Nodes == {1, 2, 3}

\* RED.nodes.getNode(config.server) of an operation node is a node
HasServerNode(n) == n # 3

\* the calls of apiCall, in the order they are made: each has its own
\* promise chain, whichever node made it
Callers == 1..MaxCalls

\* JavaScript truthiness of a string / number / undefined
Truthy(x) == x # Undef /\ x # EmptyStr

\* a || b
OrElse(a, b) == IF Truthy(a) THEN a ELSE b

\* ------------------------------------------------------------------ strings
\* strings that are computed on are sequences of one-character strings
IndexOfFrom(s, ch, i) ==
  LET hits == {j \in i..Len(s) : s[j] = ch}
  IN IF hits = {} THEN -1 ELSE (CHOOSE j \in hits : \A k \in hits : j <= k) - 1

\* String.prototype.indexOf: zero-based, -1 when absent
IndexOf(s, ch) == IndexOfFrom(s, ch, 1)

\* String.prototype.substr(start, length) for start = 0: a negative length
\* gives the empty string
Substr0(s, length) ==
  IF length <= 0 THEN << >> ELSE SubSeq(s, 1, IF length > Len(s) THEN Len(s) ELSE length)

\* config.host and config.port of the configuration node
ConfigHost == "192.168.1.254"
ConfigPort == "80"

FreeboxUrl == <<"http://", ConfigHost, ":", ConfigPort>>

\* the api_version values of the discovery response
ApiVersions == {<<"8", ".", "0">>}
ApiBaseUrl == <<"/api/">>

BaseUrl(api_base_url, api_version) ==
  FreeboxUrl \o api_base_url \o <<"v">> \o Substr0(api_version, IndexOf(api_version, "."))

\* ----------------------------------------------------------------- requests
\* request bodies: undefined, the authorize identity, the session login
NoBody == [kind |-> "undefined", password |-> 0]
AuthorizeBody == [kind |-> "application", password |-> 0]
SessionBody(password) == [kind |-> "session", password |-> password]
\* msg.payload of an operation node built withPayload: true, and logout's {}
PayloadBody == [kind |-> "payload", password |-> 0]

\* a body is truthy unless it is undefined
BodyTruthy(data) == data.kind # "undefined"

MethodAlwaysGet(data) == "GET"

\* method: data ? 'POST' : 'GET'
Method(data) == IF BodyTruthy(data) THEN "POST" ELSE "GET"

NoHeaders == {}

\* { 'X-Fbx-App-Auth': this.session.token }
AuthHeader(token) == {<<"X-Fbx-App-Auth", token>>}

\* the options object handed to axios
Request(baseUrl, path, arg, data, headers) ==
  [base |-> baseUrl, path |-> path, arg |-> arg, method |-> Method(data),
   data |-> data, headers |-> headers]

\* no request in flight
NoRequest ==
  [base |-> << >>, path |-> "", arg |-> 0, method |-> "", data |-> NoBody,
   headers |-> NoHeaders]

\* crypto.createHmac('sha1', key).update(message).digest('hex'): a digest
\* that determines the pair (key, message) over the values of the model
Hmac(key, message) == 1000 + 100 * key + message

\* createHmac throws on an undefined key, update on an undefined message
HmacThrows(key, message) == key = Undef \/ message = Undef

\* -------------------------------------------------------------------- state
VARIABLES
  credStore,    \* what RED.nodes holds for node.id (addCredentials / deleteCredentials)
  credentials,  \* this.credentials
  freebox,      \* this.freebox
  application,  \* this.application
  session,      \* this.session
  events,       \* how often this._statusChanged emitted each event
  log,          \* the entries the last handler wrote through RED.log
  output,       \* how the last handler ended an 'input' handler's call, if it did
  regReq,       \* the request of init / registerApplication that is in flight
  discovered,   \* the { uid, api_base_url, api_version } the discovery call resolved with
  authorized,   \* the { app_token, track_id } the last authorize call resolved with
  polled,       \* the { status } the last authorize-status poll resolved with
  callers,      \* the promise chain of each call of apiCall
  deployed,     \* the runtime has constructed the operation nodes of the flow
  nRegister, nRestarts, nCalls

vars == <<credStore, credentials, freebox, application, session, events, log, output,
          regReq, discovered, authorized, polled, callers, deployed, nRegister, nRestarts,
          nCalls>>

EventNames == {"application.pending", "application.granted", "application.timeout",
               "application.unknown", "application.error", "session.opened",
               "session.closed"}

\* this.credentials = {} / RED.nodes.deleteCredentials(node.id)
NoCredentials == [token |-> Undef, trackId |-> Undef]

\* this.application = {}
DiscardedApplication == [token |-> Undef, trackId |-> Undef, status |-> "undefined"]

\* this.session = {}
DiscardedSession == [token |-> Undef, permissions |-> Undef]

\* the constructor's this.freebox
UnsetFreebox == [uid |-> "", baseUrl |-> << >>]

\* init has not received the discovery response
Undiscovered == [uid |-> "", api_base_url |-> << >>, api_version |-> << >>]

NewApplicationWithoutTrackId(creds) ==
  [token |-> OrElse(creds.token, EmptyStr), trackId |-> EmptyStr, status |-> ""]

\* the constructor's this.application
NewApplication(creds) ==
  [token |-> OrElse(creds.token, EmptyStr), trackId |-> OrElse(creds.trackId, EmptyStr),
   status |-> ""]

\* the constructor's this.session
NewSession == [token |-> EmptyStr, permissions |-> EmptyObj]

\* an apiCall chain that has not been started
IdleCaller ==
  [pc |-> "idle", node |-> 0, path |-> "", data |-> NoBody, req |-> NoRequest,
   logged_in |-> "none", challenge |-> Undef]

\* the last handler ended no call
NoOutput == [caller |-> 0, kind |-> "none", payload |-> Undef]

\* node.send({ payload }), node.status(...), done()
Sent(n, payload) == [caller |-> n, kind |-> "sent", payload |-> payload]

\* the promise apiCall returned is rejected; the input handler has no catch
Rejected(n) == [caller |-> n, kind |-> "rejected", payload |-> Undef]

\* the input handler returned done() without calling the api
Unconfigured(n) == [caller |-> n, kind |-> "unconfigured", payload |-> Undef]

\* the 'close' listener threw out of logout()
LogoutThrew == [caller |-> 0, kind |-> "logout threw", payload |-> Undef]

\* a RED.log entry: the message and the values interpolated into it
LogEntry(msg, vals) == [msg |-> msg, vals |-> vals]

\* what util.inspect(response) shows of the failed request (response.config):
\* its headers, its body and its url, which ends with the track id when the
\* request is an authorize-status poll
Inspect(req) ==
  {h[2] : h \in req.headers}
    \cup (IF req.data.kind = "session" THEN {req.data.password} ELSE {})
    \cup (IF req.arg # 0 THEN {req.arg} ELSE {})

\* the catch of _internalApiCall: the line shows the url and the inspected
\* response
ErrorEntry(req) == LogEntry("request error", Inspect(req))

Emit(ev, name) == [ev EXCEPT ![name] = @ + 1]

\* the request init makes
DiscoveryRequest == Request(FreeboxUrl, "/api_version", 0, NoBody, NoHeaders)

\* the state the constructor leaves, given what the credential store holds
Constructed(stored) ==
  /\ credentials' = stored
  /\ freebox' = UnsetFreebox
  /\ application' = NewApplication(stored)
  /\ session' = NewSession
  /\ events' = [e \in EventNames |-> 0]
  /\ log' = {LogEntry("Connecting to freebox", {})}
  /\ regReq' = DiscoveryRequest
  /\ discovered' = Undiscovered
  /\ authorized' = [app_token |-> Undef, track_id |-> Undef]
  /\ polled' = ""
  /\ callers' = [c \in Callers |-> IdleCaller]
  /\ deployed' = FALSE
  /\ UNCHANGED <<nRegister, nCalls>>

Init ==
  /\ credStore = NoCredentials
  /\ credentials = credStore
  /\ freebox = UnsetFreebox
  /\ application = NewApplication(credentials)
  /\ session = NewSession
  /\ events = [e \in EventNames |-> 0]
  /\ log = {LogEntry("Connecting to freebox", {})}
  /\ output = NoOutput
  /\ regReq = DiscoveryRequest
  /\ discovered = Undiscovered
  /\ authorized = [app_token |-> Undef, track_id |-> Undef]
  /\ polled = ""
  /\ callers = [c \in Callers |-> IdleCaller]
  /\ deployed = FALSE
  /\ nRegister = 0
  /\ nRestarts = 0
  /\ nCalls = 0

\* what FreeboxNode.constructor of operation node n logs
NodeConstructorLog(n) ==
  IF HasServerNode(n) THEN {} ELSE {LogEntry("Server not configured", {})}

\* the runtime constructs the operation nodes of the flow, after the
\* configuration node and before any callback or message is handled
Deploy ==
  /\ ~deployed
  /\ deployed' = TRUE
  /\ log' = UNION {NodeConstructorLog(n) : n \in Nodes}
  /\ output' = NoOutput
  /\ UNCHANGED <<credStore, credentials, freebox, discovered, application, session, events,
                 regReq, authorized, polled, callers, nRegister, nRestarts, nCalls>>

\* the runtime is restarted: every pending callback is gone and the node is
\* constructed again from the credential store
Restart ==
  /\ deployed
  /\ nRestarts < MaxRestarts
  /\ nRestarts' = nRestarts + 1
  /\ Constructed(credStore)
  /\ output' = NoOutput
  /\ UNCHANGED credStore

\* logout(): this.call is not a method of the node, so that calling it throws
\* a TypeError before any request is made and before the then callback that
\* emits session.closed is attached
Logout == LogoutThrew

\* the runtime emits 'close' on the node: the listener runs logout(), which
\* throws; the state of the node, its requests in flight and their callbacks
\* stay as they are
Close ==
  /\ deployed
  /\ output' = Logout
  /\ log' = {}
  /\ UNCHANGED <<credStore, credentials, freebox, discovered, application, session, events,
                 regReq, authorized, polled, callers, nRegister, nRestarts, deployed, nCalls>>

\* ---------------------------------------------------------------- registrar
\* the request registerApplication issues for the application state app
RegisterApplication(app, fb) ==
  IF Truthy(app.trackId)
  THEN Request(fb.baseUrl, "/login/authorize/", app.trackId, NoBody, NoHeaders)
  ELSE Request(fb.baseUrl, "/login/authorize", 0, AuthorizeBody, NoHeaders)

IsPoll(req) == req.path = "/login/authorize/"
IsAuthorize(req) == req.path = "/login/authorize"
IsDiscovery(req) == req.path = "/api_version"

\* a call of registerApplication(): it issues its request
Register(app, fb) ==
  LET req == RegisterApplication(app, fb) IN
  /\ regReq' = req
  /\ nRegister < MaxRegister
  /\ nRegister' = nRegister + 1

\* the promise chain of the registrar ends
Halt == regReq' = NoRequest /\ UNCHANGED nRegister

\* init: the discovery call resolved with data, which has a uid
DiscoveryResolved(data) ==
  /\ deployed
  /\ IsDiscovery(regReq)
  /\ discovered' = data
  /\ freebox' = [uid |-> data.uid, baseUrl |-> BaseUrl(data.api_base_url, data.api_version)]
  /\ IF application.status # "granted"
     THEN Register(application, freebox')
     ELSE Halt
  /\ log' = {}
  /\ output' = NoOutput
  /\ UNCHANGED <<credStore, credentials, application, session, events,
                 authorized, polled, callers, nRestarts, deployed, nCalls>>

\* the discovery responses of the appliance
DiscoveryResults ==
  {[uid |-> "abc", api_base_url |-> ApiBaseUrl, api_version |-> v] : v \in ApiVersions}

DiscoveryOk == \E data \in DiscoveryResults : DiscoveryResolved(data)

DiscoveryFailsAndRegisters(app, fb) == Register(app, fb)

\* what the catch of init does after its event: nothing
DiscoveryFailsNext(app, fb) == Halt

\* init: the request failed, or the response has no uid
DiscoveryFails ==
  /\ deployed
  /\ IsDiscovery(regReq)
  /\ log' = {LogEntry("Freebox error", {})}
  /\ output' = NoOutput
  /\ events' = Emit(events, "application.error")
  /\ DiscoveryFailsNext(application, freebox)
  /\ UNCHANGED <<credStore, credentials, freebox, discovered, application, session,
                 authorized, polled, callers, nRestarts, deployed, nCalls>>

\* registerApplication, else branch: the authorize call resolved with a result
AuthorizeOk ==
  /\ IsAuthorize(regReq)
  /\ \E result \in AuthorizeResults :
       /\ authorized' = result
       /\ log' = {LogEntry("Register app token", {result.app_token})}
       /\ output' = NoOutput
       /\ application' = [application EXCEPT !.token = result.app_token,
                                             !.trackId = result.track_id,
                                             !.status = ""]
       /\ Register(application', freebox)
  /\ UNCHANGED <<credStore, credentials, freebox, discovered, session, events, polled, callers,
                 nRestarts, deployed, nCalls>>

\* registerApplication, else branch: the authorize request failed, so that
\* _internalApiCall logs the error and resolves with the error object, whose
\* app_token and track_id are undefined
AuthorizeError ==
  /\ IsAuthorize(regReq)
  /\ authorized' = [app_token |-> Undef, track_id |-> Undef]
  /\ log' = {ErrorEntry(regReq), LogEntry("Register app token", {Undef})}
  /\ output' = NoOutput
  /\ application' = [application EXCEPT !.token = Undef, !.trackId = Undef, !.status = ""]
  /\ Register(application', freebox)
  /\ UNCHANGED <<credStore, credentials, freebox, discovered, session, events, polled, callers,
                 nRestarts, deployed, nCalls>>

\* a response whose body has no result: _internalApiCall resolves with
\* undefined and the handler's parameter destructuring throws
RegistrarNoResult ==
  /\ IsAuthorize(regReq) \/ IsPoll(regReq)
  /\ Halt
  /\ log' = {}
  /\ output' = NoOutput
  /\ UNCHANGED <<credStore, credentials, freebox, discovered, application, session, events,
                 authorized, polled, callers, nRestarts, deployed, nCalls>>

PollPendingNoRepoll(app, fb) == Halt

\* what the pending branch does after its event: registerApplication()
PollPendingNext(app, fb) == Register(app, fb)

\* registerApplication, case 'pending'
PollPending ==
  /\ IsPoll(regReq)
  /\ polled' = "pending"
  /\ application' = [application EXCEPT !.status = "pending"]
  /\ log' = {LogEntry("The app is not accepted", {})}
  /\ output' = NoOutput
  /\ events' = Emit(events, "application.pending")
  /\ PollPendingNext(application', freebox)
  /\ UNCHANGED <<credStore, credentials, freebox, discovered, session, authorized, callers,
                 nRestarts, deployed, nCalls>>

GrantedCredentialsStale(app, auth) == [token |-> EmptyStr, trackId |-> app.trackId]

\* the credentials the granted branch hands to RED.nodes.addCredentials
GrantedCredentials(app, auth) == [token |-> app.token, trackId |-> app.trackId]

\* registerApplication, case 'granted'
PollGranted ==
  /\ IsPoll(regReq)
  /\ polled' = "granted"
  /\ application' = [application EXCEPT !.status = "granted"]
  /\ log' = {LogEntry("Application registered", {})}
  /\ output' = NoOutput
  /\ events' = Emit(events, "application.granted")
  /\ credentials' = GrantedCredentials(application', authorized)
  /\ credStore' = credentials'
  /\ Halt
  /\ UNCHANGED <<freebox, discovered, session, authorized, callers, nRestarts, deployed, nCalls>>

TimeoutApplicationKept(app) == app

\* the application state the timeout branch leaves
TimeoutApplication(app) == DiscardedApplication

\* registerApplication, case 'timeout'
PollTimeout ==
  /\ IsPoll(regReq)
  /\ polled' = "timeout"
  /\ log' = {LogEntry("Application not registered in time", {})}
  /\ output' = NoOutput
  /\ events' = Emit(events, "application.timeout")
  /\ credStore' = NoCredentials
  /\ credentials' = NoCredentials
  /\ application' = TimeoutApplication([application EXCEPT !.status = "timeout"])
  /\ session' = DiscardedSession
  /\ Register(application', freebox)
  /\ UNCHANGED <<freebox, discovered, authorized, callers, nRestarts, deployed, nCalls>>

PollDefaultRegisters(app, fb) == Register(app, fb)

\* what the default branch does after its event: nothing
PollDefaultNext(app, fb) == Halt

\* registerApplication, default: the status is neither pending, granted nor
\* timeout.  failed = TRUE is the poll whose request failed: _internalApiCall
\* logs the error and resolves with the error object, whose status is not
\* one of the three
PollDefault(failed) ==
  /\ IsPoll(regReq)
  /\ polled' = (IF failed THEN "error" ELSE "denied")
  /\ log' = {LogEntry("Register application failed", {})}
                \cup (IF failed THEN {ErrorEntry(regReq)} ELSE {})
  /\ output' = NoOutput
  /\ events' = Emit(events, "application.unknown")
  /\ credStore' = NoCredentials
  /\ credentials' = NoCredentials
  /\ application' = DiscardedApplication
  /\ session' = DiscardedSession
  /\ PollDefaultNext(application', freebox)
  /\ UNCHANGED <<freebox, discovered, authorized, callers, nRestarts, deployed, nCalls>>

PollDenied == PollDefault(FALSE)

PollError == PollDefault(TRUE)

\* ------------------------------------------------------------------ callers
\* the value a failed request resolves with in a handler that uses it whole
ErrorObject == -2

\* apiCallOptions.url of an operation node
NodePath(n) == IF n = 2 THEN "/connection" ELSE "/lan/browser/pub"

\* apiCallOptions.withPayload: false for both registered types
WithPayload(n) == FALSE

\* what the input handler passes as data: withPayload ? msg.payload : undefined
NodeData(n) == IF WithPayload(n) THEN {PayloadBody} ELSE {NoBody}

IsLoginStatus(req) == req.path = "/login"
IsOpenSession(req) == req.path = "/login/session"
IsSigned(req) == req.path \in {NodePath(n) : n \in Nodes}

\* an object is truthy
ObjectTruthy(o) == TRUE

\* the input handler's test before it calls the api:
\* !serverNode || !serverNode.freebox
NotConfigured(n, fb) == ~HasServerNode(n) \/ ~ObjectTruthy(fb)

\* refreshSession: the login-status request
LoginStatusRequest(fb) == Request(fb.baseUrl, "/login", 0, NoBody, NoHeaders)

\* refreshSession: the open-session request
OpenSessionRequest(fb, password) ==
  Request(fb.baseUrl, "/login/session", 0, SessionBody(password), NoHeaders)

\* apiCall: the request for the caller's url, made once refreshSession resolved
SignedRequest(fb, path, data, sess) ==
  Request(fb.baseUrl, path, 0, data, AuthHeader(sess.token))

\* apiCall(url, data) by node n, through refreshSession up to the
\* login-status request: the call starts a promise chain of its own
ApiCall(n, data) ==
  /\ deployed
  /\ nCalls < MaxCalls
  /\ nCalls' = nCalls + 1
  /\ callers' = [callers EXCEPT ![nCalls + 1] =
       [IdleCaller EXCEPT !.pc = "login", !.node = n, !.path = NodePath(n), !.data = data,
                          !.req = LoginStatusRequest(freebox)]]
  /\ log' = {LogEntry(Method(data), {})}
  /\ output' = NoOutput

\* the 'input' handler of operation node n
Input(n) ==
  /\ deployed
  /\ IF NotConfigured(n, freebox)
     THEN /\ log' = {LogEntry("Freebox server is not configured", {})}
          /\ output' = Unconfigured(n)
          /\ UNCHANGED <<callers, nCalls>>
     ELSE \E data \in NodeData(n) : ApiCall(n, data)
  /\ UNCHANGED <<credStore, credentials, freebox, discovered, application, session, events, regReq,
                 authorized, polled, nRegister, nRestarts, deployed>>

NeedsLoginAlways(logged_in) == TRUE

\* refreshSession: if (!logged_in)
NeedsLogin(logged_in) == ~logged_in

\* refreshSession: the password of the open-session request
Password(app, challenge) == Hmac(app.token, challenge)

\* refreshSession: the login-status call resolved with a result
LoginStatusOk(c) ==
  /\ IsLoginStatus(callers[c].req)
  /\ \E logged_in \in BOOLEAN, challenge \in Challenges :
       LET answered == [callers[c] EXCEPT
                          !.logged_in = (IF logged_in THEN "true" ELSE "false"),
                          !.challenge = challenge]
       IN callers' = [callers EXCEPT ![c] =
            IF NeedsLogin(logged_in)
            THEN IF HmacThrows(application.token, challenge)
                 THEN [answered EXCEPT !.pc = "idle", !.req = NoRequest]
                 ELSE [answered EXCEPT
                         !.pc = "session",
                         !.req = OpenSessionRequest(freebox, Password(application, challenge))]
            ELSE [answered EXCEPT
                    !.pc = "call",
                    !.req = SignedRequest(freebox, callers[c].path, callers[c].data, session)]]
  /\ log' = {}
  /\ output' = (IF callers'[c].pc = "idle" THEN Rejected(callers[c].node) ELSE NoOutput)
  /\ UNCHANGED <<credStore, credentials, freebox, discovered, application, session, events, regReq,
                 authorized, polled, nRegister, nRestarts, deployed, nCalls>>

\* refreshSession: the login-status request failed; _internalApiCall logs the
\* error and resolves with the error object, whose logged_in and challenge are
\* undefined, and computing the password throws
LoginStatusError(c) ==
  /\ IsLoginStatus(callers[c].req)
  /\ callers' = [callers EXCEPT ![c] =
       IdleCaller]
  /\ log' = {ErrorEntry(callers[c].req)}
  /\ output' = Rejected(callers[c].node)
  /\ UNCHANGED <<credStore, credentials, freebox, discovered, application, session, events, regReq,
                 authorized, polled, nRegister, nRestarts, deployed, nCalls>>

\* a login-status or open-session response without result: _internalApiCall
\* resolves with undefined and the handler's parameter destructuring throws
SessionNoResult(c) ==
  /\ IsLoginStatus(callers[c].req) \/ IsOpenSession(callers[c].req)
  /\ callers' = [callers EXCEPT ![c] = IdleCaller]
  /\ log' = {}
  /\ output' = Rejected(callers[c].node)
  /\ UNCHANGED <<credStore, credentials, freebox, discovered, application, session, events, regReq,
                 authorized, polled, nRegister, nRestarts, deployed, nCalls>>

\* refreshSession: the open-session call resolved with what; the session is
\* stored and apiCall makes the request for the caller's url
OpenSessionResolved(c, session_token, permissions, entries) ==
  /\ IsOpenSession(callers[c].req)
  /\ log' = entries \cup {LogEntry("Session opened", {})}
  /\ output' = NoOutput
  /\ events' = Emit(events, "session.opened")
  /\ session' = [token |-> session_token, permissions |-> permissions]
  /\ callers' = [callers EXCEPT ![c] =
       [@ EXCEPT !.pc = "call",
                 !.req = SignedRequest(freebox, callers[c].path, callers[c].data, session')]]
  /\ UNCHANGED <<credStore, credentials, freebox, discovered, application, regReq,
                 authorized, polled, nRegister, nRestarts, deployed, nCalls>>

\* the open-session call resolved with a result
OpenSessionOk(c) ==
  \E session_token \in SessionTokens, permissions \in Permissions :
    OpenSessionResolved(c, session_token, permissions, {})

\* the open-session request failed: the handler runs on the error object,
\* whose session_token and permissions are undefined
OpenSessionError(c) ==
  OpenSessionResolved(c, Undef, Undef, {ErrorEntry(callers[c].req)})

SignedRetriesOnError(c, payload) ==
  IF payload = ErrorObject
  THEN [callers[c] EXCEPT !.pc = "login", !.req = LoginStatusRequest(freebox)]
  ELSE IdleCaller

\* the chain of caller c once its request resolved: apiCall makes no
\* further request, whatever the request resolved with
SignedNext(c, payload) == IdleCaller

\* the request for the caller's url resolved with what: the input handler
\* sends it as the payload of the output message
SignedResolved(c, payload, entries) ==
  /\ IsSigned(callers[c].req)
  /\ callers[c].pc = "call"
  /\ callers' = [callers EXCEPT ![c] = SignedNext(c, payload)]
  /\ log' = entries
  /\ output' = Sent(callers[c].node, payload)
  /\ UNCHANGED <<credStore, credentials, freebox, discovered, application, session, events, regReq,
                 authorized, polled, nRegister, nRestarts, deployed, nCalls>>

\* the response carries a result, or none (data.result is undefined)
SignedOk(c) == \E payload \in Results \cup {Undef} : SignedResolved(c, payload, {})

\* the request failed: _internalApiCall logs and resolves with the error
SignedError(c) == SignedResolved(c, ErrorObject, {ErrorEntry(callers[c].req)})

\* ------------------------------------------------------------ specification
Next ==
  \/ Deploy
  \/ Restart
  \/ Close
  \/ DiscoveryOk
  \/ DiscoveryFails
  \/ AuthorizeOk
  \/ AuthorizeError
  \/ RegistrarNoResult
  \/ PollPending
  \/ PollGranted
  \/ PollTimeout
  \/ PollDenied
  \/ PollError
  \/ \E n \in Nodes : Input(n)
  \/ \E c \in Callers :
       \/ LoginStatusOk(c)
       \/ LoginStatusError(c)
       \/ SessionNoResult(c)
       \/ OpenSessionOk(c)
       \/ OpenSessionError(c)
       \/ SignedOk(c)
       \/ SignedError(c)

Spec == Init /\ [][Next]_vars

\* ------------------------------------------------- discovery on any version
\* the longest api_version string the appliance answers with
MaxVersionLen == 3

VersionChars == {"8", "0", "."}

\* every api_version string of at most MaxVersionLen characters
DiscoveryVersions == UNION {[1..n -> VersionChars] : n \in 0..MaxVersionLen}

DiscoveryBaseUrls == {<<"/api/">>, <<"/">>}

\* the discovery responses with a uid, whatever their version string
AnyDiscoveryResults ==
  {[uid |-> "abc", api_base_url |-> b, api_version |-> v] :
     b \in DiscoveryBaseUrls, v \in DiscoveryVersions}

DiscoveryAny == \E data \in AnyDiscoveryResults : DiscoveryResolved(data)

\* init and the registrar it starts, for every discovery response
NextDiscovery ==
  \/ Deploy
  \/ DiscoveryAny
  \/ DiscoveryFails
  \/ AuthorizeOk
  \/ AuthorizeError
  \/ RegistrarNoResult
  \/ PollPending
  \/ PollGranted
  \/ PollTimeout
  \/ PollDenied
  \/ PollError

SpecDiscovery == Init /\ [][NextDiscovery]_vars

\* ------------------------------------------------- apiCall with any data
\* apiCall(url, data) called without and with a body, as the input handler
\* of an operation built with withPayload: true calls it on a message that
\* has a payload
ApiCallAny(n) ==
  /\ HasServerNode(n)
  /\ \E data \in {NoBody, PayloadBody} : ApiCall(n, data)
  /\ UNCHANGED <<credStore, credentials, freebox, discovered, application, session, events, regReq,
                 authorized, polled, nRegister, nRestarts, deployed>>

\* the registrar and the chains of such calls
NextApiCall ==
  \/ Deploy
  \/ DiscoveryOk
  \/ DiscoveryFails
  \/ AuthorizeOk
  \/ AuthorizeError
  \/ RegistrarNoResult
  \/ PollPending
  \/ PollGranted
  \/ PollTimeout
  \/ PollDenied
  \/ PollError
  \/ \E n \in Nodes : ApiCallAny(n)
  \/ \E c \in Callers :
       \/ LoginStatusOk(c)
       \/ LoginStatusError(c)
       \/ SessionNoResult(c)
       \/ OpenSessionOk(c)
       \/ OpenSessionError(c)
       \/ SignedOk(c)
       \/ SignedError(c)

SpecApiCall == Init /\ [][NextApiCall]_vars

\* ------------------------------------------------------------------- claims
\* a registrar handler ran and took the branch that logs msg
RegistrarLogged(msg) == LogEntry(msg, {}) \in log'

\* the values a request carries in its url, body and headers
RequestValues(req) == Inspect(req) \cup {req.arg}

\* the requests in flight
InFlight == {regReq} \cup {callers[c].req : c \in Callers}

HasAuthHeader(req) == \E h \in req.headers : h[1] = "X-Fbx-App-Auth"

\* C1: on a node that made the authorize call itself, application.granted is
\* emitted at most once, exactly once when a poll answered granted, and the
\* credentials handed to the credential store are then the app_token and the
\* track_id the (last) authorize call returned.
C1_GrantedOnceWithAuthorizedCredentials ==
  /\ events["application.granted"] <= 1
  /\ polled = "granted" =>
       /\ events["application.granted"] = 1
       /\ authorized.app_token # Undef =>
            /\ credStore = [token |-> authorized.app_token, trackId |-> authorized.track_id]
            /\ credentials = credStore

\* C1 witness: a first run (no stored credentials) that authorized twice,
\* was granted, and stored the second authorize call's token and track id
C1_Witness ==
  /\ nRestarts = 0
  /\ polled = "granted"
  /\ events["application.granted"] = 1
  /\ events["application.timeout"] = 1
  /\ authorized = [app_token |-> 12, track_id |-> 22]
  /\ credStore = [token |-> 12, trackId |-> 22]

\* the poll in flight is answered 'timeout'
TimeoutStep ==
  IsPoll(regReq) /\ polled' = "timeout" /\ RegistrarLogged("Application not registered in time")

\* C2: a poll answered 'timeout' emits application.timeout once, discards the
\* stored credentials, the application state and the session state, and
\* issues POST /login/authorize in the same step (so before any further
\* poll); the first poll issued after a timeout (polled is still 'timeout')
\* is issued by the handler of an authorize call and carries the track id
\* that call returned.
C2_TimeoutReauthorizes ==
  [][/\ TimeoutStep =>
          /\ events'["application.timeout"] = events["application.timeout"] + 1
          /\ credStore' = NoCredentials
          /\ credentials' = NoCredentials
          /\ application' = DiscardedApplication
          /\ session' = DiscardedSession
          /\ IsAuthorize(regReq')
          /\ regReq'.method = "POST"
          /\ nRegister' = nRegister + 1
     /\ (polled' = "timeout" /\ nRegister' = nRegister + 1 /\ IsPoll(regReq')) =>
          /\ IsAuthorize(regReq)
          /\ authorized'.track_id \in TrackIds
          /\ regReq'.arg = authorized'.track_id
          /\ application'.trackId = authorized'.track_id]_vars

\* C2 witness: after a timeout the registrar polls the track id of the
\* second authorize call, which differs from the one that timed out
C2_Witness ==
  /\ polled = "timeout"
  /\ events["application.timeout"] = 1
  /\ IsPoll(regReq)
  /\ regReq.arg = 22
  /\ authorized.track_id = 22
  /\ nRegister = 4

\* the poll in flight is answered 'pending'
PendingStep ==
  IsPoll(regReq) /\ polled' = "pending" /\ RegistrarLogged("The app is not accepted")

\* C3: a poll answered 'pending' emits application.pending once, leaves the
\* stored track id and app token and the persisted credentials unchanged, and
\* issues another poll of the same track id.
C3_PendingRepolls ==
  [][PendingStep =>
       /\ events'["application.pending"] = events["application.pending"] + 1
       /\ application'.trackId = application.trackId
       /\ application'.token = application.token
       /\ credStore' = credStore
       /\ credentials' = credentials
       /\ session' = session
       /\ nRegister' = nRegister + 1
       /\ IsPoll(regReq')
       /\ regReq'.arg = application.trackId]_vars

\* C3 witness: two polls in a row were answered pending and a third poll of
\* the same track id is in flight
C3_Witness ==
  /\ polled = "pending"
  /\ events["application.pending"] = 2
  /\ IsPoll(regReq)
  /\ regReq.arg = application.trackId
  /\ application.token \in AppTokens

\* C4: while no session exists, two callers of a granted application whose
\* login-status queries were both answered logged_in = false have at most one
\* open-session request between them.
C4_SingleOpenSession ==
  (/\ application.status = "granted"
   /\ session.token \notin SessionTokens
   /\ \A c \in Callers : callers[c].logged_in = "false")
    => Cardinality({c \in Callers : IsOpenSession(callers[c].req)}) <= 1

\* C5: no login-status, open-session or signed request is in flight on a
\* node whose application status has never been 'granted'.
C5_NoCallBeforeGranted ==
  events["application.granted"] = 0 => \A c \in Callers : callers[c].req = NoRequest

\* C6: no log entry and no request carries the app token.
C6_AppTokenNeverLoggedOrSent ==
  /\ \A entry \in log : entry.vals \cap AppTokens = {}
  /\ \A req \in InFlight : RequestValues(req) \cap AppTokens = {}

\* caller c's login-status call resolves with logged_in = true
LoggedInStep(c) == IsLoginStatus(callers[c].req) /\ callers'[c].logged_in = "true"

\* C7: when the login-status response carries logged_in = true, no
\* open-session request is issued, no session.opened is emitted and the stored
\* session is left unchanged.
C7_LoggedInLeavesSession ==
  [][\A c \in Callers :
       LoggedInStep(c) =>
         /\ ~IsOpenSession(callers'[c].req)
         /\ events'["session.opened"] = events["session.opened"]
         /\ session' = session]_vars

\* C7 witness: a session was opened by one call and a later call, answered
\* logged_in = true, goes on with that session
C7_Witness ==
  \E c \in Callers :
    /\ callers[c].logged_in = "true"
    /\ callers[c].pc = "call"
    /\ session.token \in SessionTokens
    /\ events["session.opened"] = 1
    /\ callers[c].req.headers = {<<"X-Fbx-App-Auth", session.token>>}

\* caller c's login-status call resolves with logged_in = false and a challenge
NotLoggedInStep(c) ==
  /\ IsLoginStatus(callers[c].req)
  /\ callers'[c].logged_in = "false"
  /\ callers'[c].challenge \in Challenges

\* C8: when the login-status response carries logged_in = false with a
\* challenge, one open-session request is issued, whose password is the HMAC
\* of that challenge keyed by the stored app token.
C8_OpenSessionPassword ==
  [][\A c \in Callers :
       NotLoggedInStep(c) =>
         /\ IsOpenSession(callers'[c].req)
         /\ callers'[c].req.data.password = Hmac(application.token, callers'[c].challenge)]_vars

\* C9: the request apiCall makes for the caller's url is a POST when a body is
\* given and a GET when none is, and has the X-Fbx-App-Auth header; the
\* discovery, authorize, authorize-status, login-status and open-session
\* requests have no header.
C9_MethodAndHeader ==
  /\ \A c \in Callers :
       LET req == callers[c].req IN
       /\ IsSigned(req) =>
            /\ req.method = (IF callers[c].data.kind = "undefined" THEN "GET" ELSE "POST")
            /\ HasAuthHeader(req)
       /\ (IsLoginStatus(req) \/ IsOpenSession(req)) => req.headers = {}
  /\ regReq.headers = {}

\* C9 witness: a call made without a body and a call made with one both
\* have their request in flight, a GET and a POST, each with the header,
\* while the registrar's poll is in flight
C9_Witness ==
  \E c, d \in Callers :
    /\ callers[c].pc = "call" /\ callers[c].data = NoBody
    /\ callers[c].req.method = "GET"
    /\ callers[d].pc = "call" /\ callers[d].data = PayloadBody
    /\ callers[d].req.method = "POST"
    /\ HasAuthHeader(callers[c].req) /\ HasAuthHeader(callers[d].req)
    /\ IsPoll(regReq)

\* C10: persisted credentials are deleted or replaced only when an
\* authorize-status poll is answered with a revoking status ('timeout', or a
\* status that is neither pending nor granted); a failed request never
\* deletes them.
C10_CredentialsDurable ==
  [][(credStore # NoCredentials /\ credStore' # credStore) =>
       (IsPoll(regReq) /\ polled' \in {"timeout", "denied"})]_vars

\* C8, restricted to calls made once the application is granted (checked to
\* see that C8 fails only on calls made before the grant)
C8_OpenSessionPasswordOnceGranted ==
  [][\A c \in Callers :
       (NotLoggedInStep(c) /\ application.status = "granted") =>
         /\ IsOpenSession(callers'[c].req)
         /\ callers'[c].req.data.password = Hmac(application.token, callers'[c].challenge)]_vars


\* C11: while the node holds credentials with a track id (the ones it loaded
\* from the credential store, until a poll discards them), the discovery
\* handler issues the poll of that track id, and unless a poll answers
\* timeout no POST /login/authorize is in flight after any step and the
\* application token is the loaded one (or discarded, never another one).
C11_PersistedCredentialsPolled ==
  [][Truthy(credentials.trackId) =>
       /\ (IsDiscovery(regReq) /\ freebox'.uid # "") =>
            /\ IsPoll(regReq')
            /\ regReq'.arg = credentials.trackId
            /\ application' = application
       /\ polled' # "timeout" =>
            /\ ~IsAuthorize(regReq')
            /\ application'.token \in {credentials.token, Undef}
            /\ IsPoll(regReq') => regReq'.arg = credentials.trackId]_vars

\* C11 witness: a node constructed from stored credentials that made no
\* authorize call and is polling the stored track id a second time
C11_Witness ==
  /\ nRestarts = 1
  /\ Truthy(credentials.trackId)
  /\ credentials = credStore
  /\ authorized.app_token = Undef
  /\ events["application.pending"] = 1
  /\ IsPoll(regReq)
  /\ regReq.arg = credentials.trackId
  /\ application.token = credentials.token

\* the poll handler ran on an answered status that is neither pending,
\* granted nor timeout
DeniedStep ==
  /\ IsPoll(regReq)
  /\ polled' = "denied"
  /\ RegistrarLogged("Register application failed")

\* C12: a poll answering a status other than pending, granted and timeout
\* emits application.unknown once, discards the stored credentials, the
\* application and the session, and ends the registrar: that step and every
\* later step of the node issue no authorize and no authorize-status request.
C12_UnknownStatusIsTerminal ==
  [][/\ DeniedStep =>
          /\ events' = Emit(events, "application.unknown")
          /\ credStore' = NoCredentials
          /\ credentials' = NoCredentials
          /\ application' = DiscardedApplication
          /\ session' = DiscardedSession
          /\ regReq' = NoRequest
          /\ nRegister' = nRegister
     /\ (polled = "denied" /\ polled' = "denied") =>
          /\ regReq' = NoRequest
          /\ nRegister' = nRegister
          /\ events'["application.unknown"] = 1]_vars

\* C12 witness: a node constructed from stored credentials whose poll was
\* answered with such a status, after which an operation node made a call
C12_Witness ==
  /\ nRestarts = 1
  /\ authorized.app_token = Undef
  /\ polled = "denied"
  /\ events["application.unknown"] = 1
  /\ credStore = NoCredentials
  /\ application = DiscardedApplication
  /\ regReq = NoRequest
  /\ \E c \in Callers : callers[c].pc = "call"

\* C13: while the device identity is unset (discovery has not succeeded) no
\* authorize and no authorize-status request is in flight; once
\* application.error was emitted (the discovery request failed or its
\* response had no uid) it was emitted once, the identity is still unset and
\* the registrar has no request in flight.
C13_NoRegistrationBeforeDiscovery ==
  /\ freebox.uid = "" =>
       /\ freebox = UnsetFreebox
       /\ ~IsAuthorize(regReq)
       /\ ~IsPoll(regReq)
  /\ events["application.error"] >= 1 =>
       /\ events["application.error"] = 1
       /\ freebox = UnsetFreebox
       /\ regReq = NoRequest
       /\ application = NewApplication(credentials)

\* C13 witness: discovery failed on a node constructed from stored
\* credentials, and the node went on to serve an operation node
C13_Witness ==
  /\ events["application.error"] = 1
  /\ Truthy(credentials.trackId)
  /\ freebox = UnsetFreebox
  /\ regReq = NoRequest
  /\ \E c \in Callers : callers[c].pc = "login"

\* C14: logout() issues the authenticated logout request and raises no
\* failure to its caller: the 'close' listener never ends by throwing out
\* of logout().
C14_LogoutNeverRaises == output # LogoutThrew

\* the handler of caller c's open-session request ran on a failed request
OpenSessionFailedStep(c) ==
  /\ IsOpenSession(callers[c].req)
  /\ callers'[c] # callers[c]
  /\ ErrorEntry(callers[c].req) \in log'

\* C15: a transport failure of the open-session request commits nothing to
\* the session: on a node whose application is granted, the step that
\* handles the failed request leaves this.session as it was.
C15_FailedOpenSessionKeepsSession ==
  [][\A c \in Callers :
       (application.status = "granted" /\ OpenSessionFailedStep(c)) =>
         session' = session]_vars

\* C16: an apiCall whose request failed does not end as a success: on a
\* granted node with an open session, the input handler never sends the
\* error of a failed request as the payload of an output message.
C16_FailedCallNotSent ==
  (application.status = "granted" /\ session.token \in SessionTokens) =>
    ~(output.kind = "sent" /\ output.payload = ErrorObject)

\* the major component of a version string: the characters before its
\* first '.', or the whole string when it has no '.'
MajorComponent(v) ==
  LET dots == {j \in 1..Len(v) : v[j] = "."}
  IN IF dots = {} THEN v
     ELSE SubSeq(v, 1, (CHOOSE j \in dots : \A k \in dots : j <= k) - 1)

\* C17: once discovery succeeded, baseUrl is 'http://' + host + ':' + port +
\* api_base_url + 'v' + the major component of the api_version the discovery
\* response carried.
C17_BaseUrlHasMajorVersion ==
  freebox.uid # "" =>
    freebox.baseUrl = <<"http://", ConfigHost, ":", ConfigPort>> \o discovered.api_base_url
                        \o <<"v">> \o MajorComponent(discovered.api_version)

\* a registrar handler ran on a failed authorize or authorize-status request
RegistrarFailedStep ==
  /\ IsAuthorize(regReq) \/ IsPoll(regReq)
  /\ callers' = callers
  /\ ErrorEntry(regReq) \in log'

\* C18: a transport failure of the authorize or of the authorize-status
\* request halts the registrar in place: the step that handles it emits no
\* event, leaves the application, the credentials (stored and loaded) and
\* the session as they were, and issues no further registrar request.
C18_RegistrarFailureHalts ==
  [][RegistrarFailedStep =>
       /\ events' = events
       /\ application' = application
       /\ credStore' = credStore
       /\ credentials' = credentials
       /\ session' = session
       /\ regReq' = NoRequest
       /\ nRegister' = nRegister]_vars

\* the handler of caller c's signed request ran on a failed request
SignedFailedStep(c) ==
  /\ IsSigned(callers[c].req)
  /\ callers[c].pc = "call"
  /\ callers'[c] # callers[c]
  /\ output' = Sent(callers[c].node, ErrorObject)

\* C19: the step that handles a failed signed request leaves the session as
\* it was and ends the caller's chain: the caller has no request in flight
\* (no retry, no login-status, no open-session request), and the step
\* starts no call, emits no event and touches no other chain.
C19_FailedCallLeavesSession ==
  [][\A c \in Callers :
       SignedFailedStep(c) =>
         /\ session' = session
         /\ callers'[c].req = NoRequest
         /\ callers'[c].pc = "idle"
         /\ \A d \in Callers \ {c} : callers'[d] = callers[d]
         /\ nCalls' = nCalls
         /\ events' = events
         /\ regReq' = regReq]_vars

\* C19 witness: on a granted node with an open session a signed request
\* failed, and its caller is idle with the session still held
C19_Witness ==
  \E c \in Callers :
    /\ application.status = "granted"
    /\ session.token \in SessionTokens
    /\ session.permissions \in Permissions
    /\ output.kind = "sent"
    /\ output.payload = ErrorObject
    /\ callers[c] = IdleCaller
    /\ nCalls >= c

\* C20: every signed request carries a usable session token: on a granted
\* node, a signed request in flight has an X-Fbx-App-Auth header whose value
\* is a session token an open-session response returned, never the empty
\* string or undefined.
C20_SignedRequestCarriesSessionToken ==
  application.status = "granted" =>
    \A c \in Callers :
      IsSigned(callers[c].req) =>
        /\ HasAuthHeader(callers[c].req)
        /\ \A h \in callers[c].req.headers :
             h[1] = "X-Fbx-App-Auth" => h[2] \in SessionTokens

====
